---- MODULE Spec2Model ----
(***************************************************************************)
(* Model of pysap's SAP HANA SQL Command Network Protocol client           *)
(* (pysap/SAPHDB.py): the SAPHDBConnection state machine, the handshake    *)
(* of the authentication methods and the framing done by recv.             *)
(*                                                                         *)
(* Every public method of SAPHDBConnection is one action.  The peer (the   *)
(* HANA server and the TCP stack) is the environment: what it answers to   *)
(* each read, how many bytes a socket read hands over and whether a socket *)
(* call fails are inputs of the action.                                    *)
(*                                                                         *)
(* The module follows the Python 2 semantics the source is written for     *)
(* (str literals as bytes, "None > 0" evaluating to False).                *)
(***************************************************************************)
EXTENDS Integers, Sequences, FiniteSets, TLC

VARIABLES
    stream_socket,      \* SAPHDBConnection._stream_socket: None or <<id>>
    product_version,    \* SAPHDBConnection.product_version: None or <<v>>
    protocol_version,   \* SAPHDBConnection.protocol_version: None or <<v>>
    auth_method,        \* SAPHDBConnection.auth_method (fixed at construction)
    sockets,            \* the sockets ever opened: id -> [state, initialized]
    last                \* the last call: operation, exception, I/O trace, reply

vars == <<stream_socket, product_version, protocol_version, auth_method,
          sockets, last>>

----------------------------------------------------------------------------
(* Bounds of the model *)

\* number of sockets the connection may open in one run
MaxSockets == 2

\* the (product_major, protocol_major) pairs an initialization reply may carry
Versions == {<<4, 4>>, <<2, 1>>}


----------------------------------------------------------------------------
(* Python values *)

\* Python's None; optional values are None or a one-element tuple <<v>>
None == <<>>

Some(v) == <<v>>

Min(a, b) == IF a < b THEN a ELSE b

\* PadField(..., 8): a length rounded up to the next multiple of 8
Pad8(n) == ((n + 7) \div 8) * 8

\* SAPHDB.varpartsize default, the largest payload of one packet
varpartsize == 2^17 - 32

\* how the socket hands a packet over: the bytes the read of the 32-byte
\* header returns at most and the bytes the read of the payload returns at
\* most (0: the peer closed the stream)
Whole == <<32, varpartsize>>

ShortReads == { <<16, varpartsize>>, <<0, 0>>, <<32, 16>>, <<32, 0>> }

----------------------------------------------------------------------------
(* Authentication methods *)

\* saphdb_auth_methods: the METHOD constant of each implemented method
saphdb_auth_methods ==
    {"JWT", "SAML", "SCRAMSHA256", "SCRAMPBKDF2SHA256", "SessionCookie"}

\* the methods the connections of the state machine are constructed with
Methods == {"SCRAMSHA256", "SessionCookie"}

\* the methods deriving from SAPHDBAuthScramMethod
ScramMethods == {"SCRAMSHA256", "SCRAMPBKDF2SHA256"}

----------------------------------------------------------------------------
(* Packets.  A packet is [sessionid, packetcount, varpartlength, noofsegm, *)
(* segments]; a segment is [segmentkind, messagetype, functioncode, parts];*)
(* a part is [partkind, bufferlength, buffer].  The buffer of a part is a  *)
(* list of packets; for an authentication part it holds one                *)
(* SAPHDBPartAuthentication, a list of fields.  A field is [value, length, *)
(* nested]: the value of a nested field is itself the encoding of a        *)
(* SAPHDBPartAuthentication and is given by the byte lengths of its fields *)
(* (the server's challenge: salt, server key, rounds).                     *)

\* SAPHDBPartAuthenticationField(value=v) for a byte string of length n
SAPHDBPartAuthenticationField(v, n) ==
    [value |-> v, length |-> n, nested |-> FALSE]

RECURSIVE SumLen(_)
SumLen(ls) == IF ls = <<>> THEN 0 ELSE 1 + Head(ls) + SumLen(Tail(ls))

\* the field carrying a nested SAPHDBPartAuthentication whose fields have the
\* byte lengths ls: count (2 bytes), then per field a length byte and the value
ChallengeField(ls) == [value |-> ls, length |-> 2 + SumLen(ls), nested |-> TRUE]

RECURSIVE FieldsWire(_)
FieldsWire(fs) ==
    IF fs = <<>> THEN 0 ELSE 1 + Head(fs).length + FieldsWire(Tail(fs))

\* SAPHDBPartAuthentication(auth_fields=fs): count (2 bytes) and the fields
SAPHDBPartAuthentication(fs) == [auth_fields |-> fs, wire |-> 2 + FieldsWire(fs)]

\* SAPHDBPart(partkind=kind, argumentcount=argc, buffer=b): bufferlength is
\* computed when built
SAPHDBPart(kind, argc, b) ==
    [partkind |-> kind, argumentcount |-> argc, bufferlength |-> b.wire,
     buffer |-> <<b>>]

\* SAPHDBPart on the wire: 16 bytes of header, the buffer padded to 8 bytes
PartWire(p) == 16 + Pad8(p.bufferlength)

RECURSIVE PartsWire(_)
PartsWire(ps) == IF ps = <<>> THEN 0 ELSE PartWire(Head(ps)) + PartsWire(Tail(ps))

\* SAPHDBSegment.segmentlength: the parts plus the 24 bytes of header
SegmentWire(s) == PartsWire(s.parts) + 24

RECURSIVE SegmentsWire(_)
SegmentsWire(ss) ==
    IF ss = <<>> THEN 0 ELSE SegmentWire(Head(ss)) + SegmentsWire(Tail(ss))

\* SAPHDB on the wire: 32 bytes of header, then the segments
PacketWire(f) == 32 + SegmentsWire(f.segments)

\* SAPHDBSegment(segmentkind=kind, ...): the fields that follow segmentkind
\* are messagetype for a request, functioncode for a reply, neither otherwise
SAPHDBSegment(kind, mt, fc, parts) ==
    [segmentkind |-> kind,
     messagetype |-> IF kind = 1 THEN Some(mt) ELSE None,
     functioncode |-> IF kind = 2 THEN Some(fc) ELSE None,
     parts |-> parts]

\* SAPHDBSegment(messagetype=mt, parts=parts): segmentkind defaults to 1
Request(mt, parts) == SAPHDBSegment(1, mt, 0, parts)

\* SAPHDB(sessionid=sid, segments=segs): packetcount defaults to 0; the
\* length and count fields are computed from the segments when built
SAPHDBPacket(sid, segs) ==
    [sessionid |-> sid, packetcount |-> 0,
     varpartlength |-> Some(SegmentsWire(segs)),
     noofsegm |-> Some(Len(segs)), segments |-> segs]

\* SAPHDB(segments=segs): sessionid defaults to -1
SAPHDB(segs) == SAPHDBPacket(-1, segs)

----------------------------------------------------------------------------
(* Dissection of the first n bytes of the encoding of packet f, as scapy   *)
(* does it: the fields are read in order while bytes remain, a field that  *)
(* is not reached keeps its default, a list stops when the bytes run out.  *)
(* With all n bytes present the result is f itself.                        *)

\* the field lengths of a nested list of which only a bytes (after the
\* count) are present: the last field that is reached is cut short
RECURSIVE TruncLengths(_, _)
TruncLengths(ls, a) ==
    IF ls = <<>> \/ a <= 0 THEN <<>>
    ELSE IF a >= 1 + Head(ls)
         THEN <<Head(ls)>> \o TruncLengths(Tail(ls), a - 1 - Head(ls))
         ELSE <<a - 1>>

\* a field of which only its length byte and a - 1 bytes of value are
\* present: a cut string stands as "", which equals no method name
TruncField(f, a) ==
    IF f.nested
    THEN [value |-> TruncLengths(f.value, a - 1 - 2), length |-> a - 1,
          nested |-> TRUE]
    ELSE [value |-> "", length |-> a - 1, nested |-> FALSE]

\* the fields of which only a bytes are present
RECURSIVE TruncFields(_, _)
TruncFields(fs, a) ==
    IF fs = <<>> \/ a <= 0 THEN <<>>
    ELSE IF a >= 1 + Head(fs).length
         THEN <<Head(fs)>> \o TruncFields(Tail(fs), a - 1 - Head(fs).length)
         ELSE <<TruncField(Head(fs), a)>>

\* SAPHDBPart dissected from its first k bytes
ParsePart(p, k) ==
    [partkind |-> p.partkind,
     argumentcount |-> IF k >= 4 THEN p.argumentcount ELSE 0,
     bufferlength |-> IF k >= 12 THEN p.bufferlength ELSE 0,
     buffer |-> IF k <= 16 THEN <<>>
                ELSE IF k - 16 >= p.bufferlength THEN p.buffer
                ELSE <<[auth_fields |->
                          TruncFields(p.buffer[1].auth_fields, k - 16 - 2),
                        wire |-> k - 16]>>]

\* the parts of a segment dissected from k bytes: the buffer of SAPHDBPart
\* is a PacketListField without a length, so the first part takes all the
\* bytes that are left and no second part is dissected
ParseParts(ps, k) ==
    IF ps = <<>> \/ k <= 0 THEN <<>> ELSE <<ParsePart(Head(ps), k)>>

\* SAPHDBSegment dissected from its first m bytes: segmentkind is byte 12,
\* the conditional fields follow it and depend on the kind that was read
ParseSegment(s, m) ==
    LET kind == IF m >= 13 THEN s.segmentkind ELSE 1
    IN [segmentkind |-> kind,
        messagetype |-> IF kind # 1 THEN None
                        ELSE IF m >= 14 THEN s.messagetype ELSE Some(0),
        functioncode |-> IF kind # 2 THEN None
                         ELSE IF m >= 16 THEN s.functioncode ELSE Some(0),
        parts |-> IF m >= 10 THEN ParseParts(s.parts, m - 24) ELSE <<>>]

RECURSIVE ParseSegments(_, _)
ParseSegments(ss, m) ==
    IF ss = <<>> \/ m <= 0 THEN <<>>
    ELSE <<ParseSegment(Head(ss), m)>>
         \o ParseSegments(Tail(ss), m - SegmentWire(Head(ss)))

\* SAPHDB(raw) for the first n bytes of f
ParsePrefix(f, n) ==
    [sessionid |-> IF n >= 8 THEN f.sessionid ELSE -1,
     packetcount |-> IF n >= 12 THEN f.packetcount ELSE 0,
     varpartlength |-> IF n >= 16 THEN f.varpartlength ELSE None,
     noofsegm |-> IF n >= 22 THEN f.noofsegm ELSE None,
     segments |-> IF n >= 22 THEN ParseSegments(f.segments, n - 32) ELSE <<>>]

----------------------------------------------------------------------------
(* The peer: the packets the server may answer with and the way the socket *)
(* hands them over.                                                        *)

\* session ids the server assigns
SessionIds == {7}

\* byte lengths of the fields of the server's challenge to a SCRAM method:
\* [salt, server key, rounds] and a lone salt, for SCRAMPBKDF2SHA256 also
\* [salt, server key] and rounds of 2 bytes; the other methods get an empty
\* second field
Challenges(m) ==
    IF m = "SCRAMPBKDF2SHA256"
    THEN {<<16, 48, 4>>, <<16>>, <<16, 48>>, <<16, 48, 2>>}
    ELSE IF m \in ScramMethods THEN {<<16, 48, 4>>, <<16>>} ELSE {<<>>}

\* reply to AUTHENTICATE: one Reply segment holding one AUTHENTICATION part
AuthFrame(sid, fields) ==
    SAPHDBPacket(sid,
        <<SAPHDBSegment(2, 0, 0,
            <<SAPHDBPart(33, 1, SAPHDBPartAuthentication(fields))>>)>>)

\* the packets the server may send to a client using method m
Frames(m) ==
    UNION {
        { AuthFrame(sid, <<SAPHDBPartAuthenticationField(m, Len(m)),
                           ChallengeField(ls)>>) : ls \in Challenges(m) }
        \cup { AuthFrame(sid, <<SAPHDBPartAuthenticationField("SCRAMMD5", 8),
                                ChallengeField(<<>>)>>),
               AuthFrame(sid, <<>>),
               SAPHDBPacket(sid, <<SAPHDBSegment(2, 0, 14, <<>>)>>),
               SAPHDBPacket(sid, <<SAPHDBSegment(2, 0, 18, <<>>)>>),
               SAPHDBPacket(sid, <<SAPHDBSegment(5, 0, 0, <<>>)>>),
               SAPHDBPacket(sid, <<>>) }
        : sid \in SessionIds }

\* the packet that also arrives in short reads: a reply to DISCONNECT
ShortFrames(m) ==
    { SAPHDBPacket(sid, <<SAPHDBSegment(2, 0, 18, <<>>)>>) : sid \in SessionIds }

\* what one recv meets: a socket error, or a packet on the stream of which
\* the header read hands over at most hchunk bytes and the payload read at
\* most pchunk bytes
Replies(m) ==
    { [fault |-> TRUE, frame |-> SAPHDB(<<>>), hchunk |-> 32,
       pchunk |-> varpartsize] }
    \cup { [fault |-> FALSE, frame |-> f, hchunk |-> Whole[1],
             pchunk |-> Whole[2]] : f \in Frames(m) }
    \cup { [fault |-> FALSE, frame |-> f, hchunk |-> c[1], pchunk |-> c[2]] :
             f \in ShortFrames(m), c \in ShortReads }

\* what one send followed by one recv meets: the socket refuses the bytes,
\* or it accepts them and the recv meets r
Exchanges(m) ==
    { [ok |-> FALSE, r |-> [fault |-> TRUE, frame |-> SAPHDB(<<>>),
                            hchunk |-> 32, pchunk |-> varpartsize]] }
    \cup { [ok |-> TRUE, r |-> r] : r \in Replies(m) }

\* what the raw read of the initialization reply meets: a socket error or
\* the 8 bytes with the versions of the server
InitReplies ==
    { [fault |-> TRUE, product_major |-> 0, protocol_major |-> 0] }
    \cup { [fault |-> FALSE, product_major |-> v[1], protocol_major |-> v[2]] :
             v \in Versions }

\* what the initialization exchange meets
InitExchanges ==
    { [ok |-> FALSE, r |-> [fault |-> TRUE, product_major |-> 0,
                            protocol_major |-> 0]] }
    \cup { [ok |-> TRUE, r |-> r] : r \in InitReplies }

----------------------------------------------------------------------------
(* Exceptions and the I/O trace of a call *)

Exc(type, msg) == Some([type |-> type, msg |-> msg])

SocketNotReady == Exc("SAPHDBConnectionError", "Socket not ready")

SocketError == Exc("socket.error", "")

IndexError == Exc("IndexError", "list index out of range")

SendEv(sock, message) == [ev |-> "send", sock |-> sock, message |-> message]

RecvEv(sock, want, got) == [ev |-> "recv", sock |-> sock, want |-> want, got |-> got]

\* SAPHDBInitializationRequest(): the fixed 14 bytes
SAPHDBInitializationRequest ==
    [initialization |-> <<255, 255, 255, 255, 4, 32, 0, 4, 1, 0, 0, 1, 1, 1>>]

----------------------------------------------------------------------------
(* The methods of SAPHDBConnection, as functions of the state W of the     *)
(* call: the fields of the connection with those of its authentication     *)
(* method, the sockets, the exception raised                               *)
(* (None while running), the I/O done so far, the last packet on the       *)
(* stream, the last packet recv returned and all the packets recv returned *)
(* in the call, and the value returned.                                    *)

Raise(W, e) == [W EXCEPT !.raised = e]

is_connected(W) == W.stream_socket # None

\* send without the check for a socket
send_unchecked(W, message, ok) ==
    IF ~ok THEN Raise(W, SocketError)
    ELSE [W EXCEPT !.io = Append(@, SendEv(W.stream_socket, message))]

\* SAPHDBConnection.send; ok: the socket accepts the bytes
send(W, message, ok) ==
    IF ~is_connected(W) THEN Raise(W, SocketNotReady)
    ELSE IF ~ok THEN Raise(W, SocketError)
    ELSE [W EXCEPT !.io = Append(@, SendEv(W.stream_socket, message))]

\* SAPHDBConnection.recv; r: what the reads meet
recv(W, r) ==
    IF ~is_connected(W) THEN Raise(W, SocketNotReady)
    ELSE IF r.fault THEN Raise(W, SocketError)
    ELSE LET k1 == Min(32, r.hchunk)
             header == ParsePrefix(r.frame, k1)
             \* Python 2: None > 0 is False
             reads == header.varpartlength # None /\ header.varpartlength[1] > 0
             want == IF reads THEN header.varpartlength[1] ELSE 0
             k2 == Min(want, r.pchunk)
         IN [W EXCEPT
               !.io = @ \o <<RecvEv(W.stream_socket, 32, k1)>>
                        \o (IF reads THEN <<RecvEv(W.stream_socket, want, k2)>>
                            ELSE <<>>),
               !.frame = Some(r.frame),
               !.response = Some(ParsePrefix(r.frame, k1 + k2)),
               !.replies = Append(@, ParsePrefix(r.frame, k1 + k2))]

\* sr sending the message again before it reads the reply
sr_resend(W, message, ok, r) ==
    IF ~is_connected(W) THEN Raise(W, SocketNotReady)
    ELSE LET W1 == send(send(W, message, ok), message, ok)
         IN IF W1.raised # None THEN W1 ELSE recv(W1, r)

\* SAPHDBConnection.sr
sr(W, message, ok, r) ==
    IF ~is_connected(W) THEN Raise(W, SocketNotReady)
    ELSE LET W1 == send(W, message, ok)
         IN IF W1.raised # None THEN W1 ELSE recv(W1, r)

\* close_socket forgetting the versions of the server with the socket
close_socket_reset(W) ==
    IF W.stream_socket = None
    THEN Raise(W, Exc("AttributeError", "'NoneType' object has no attribute 'close'"))
    ELSE [W EXCEPT !.sockets[W.stream_socket[1]].state = "closed",
                   !.stream_socket = None,
                   !.product_version = None,
                   !.protocol_version = None]

\* SAPHDBConnection.close_socket
close_socket(W) ==
    IF W.stream_socket = None
    THEN Raise(W, Exc("AttributeError", "'NoneType' object has no attribute 'close'"))
    ELSE [W EXCEPT !.sockets[W.stream_socket[1]].state = "closed",
                   !.stream_socket = None]

\* SAPHDBConnection.connect; ok: get_nisocket succeeds, id: the new socket
connect(W, ok, id) ==
    IF ~ok
    THEN Raise(W, Exc("SAPHDBConnectionError", "Error connecting to the server"))
    ELSE [W EXCEPT !.stream_socket = Some(id),
                   !.sockets[id].state = "open"]

\* what becomes of the socket old once a connect has replaced the reference
\* to it: no code closes it; whether the interpreter collects the object,
\* which closes it, is up to the interpreter
dropped(W, old, collected) ==
    IF old # None /\ W.stream_socket # old /\ collected
    THEN [W EXCEPT !.sockets[old[1]].state = "closed"]
    ELSE W

\* SAPHDBTLSConnection.connect; ok: the TLS socket is created and connects,
\* id: the new socket.  No exception of socket, wrap_socket or connect is
\* caught
tls_connect(W, ok, id) ==
    IF ~ok THEN Raise(W, SocketError)
    ELSE [W EXCEPT !.stream_socket = Some(id),
                   !.sockets[id].state = "open"]

\* initialize without the early return for populated versions
initialize_always(W, ok, r) ==
    IF ~is_connected(W) THEN Raise(W, SocketNotReady)
    ELSE LET W1 == send(W, SAPHDBInitializationRequest, ok)
         IN IF W1.raised # None THEN W1
            ELSE IF r.fault THEN Raise(W1, SocketError)
            ELSE [W1 EXCEPT
                    !.io = Append(@, RecvEv(W.stream_socket, 8, 8)),
                    !.sockets[W.stream_socket[1]].initialized = TRUE,
                    !.product_version = Some(r.product_major),
                    !.protocol_version = Some(r.protocol_major)]

\* SAPHDBConnection.initialize; ok: the request is sent, r: the raw read
initialize(W, ok, r) ==
    IF ~is_connected(W) THEN Raise(W, SocketNotReady)
    ELSE IF W.product_version # None /\ W.protocol_version # None THEN W
    ELSE LET W1 == send(W, SAPHDBInitializationRequest, ok)
         IN IF W1.raised # None THEN W1
            ELSE IF r.fault THEN Raise(W1, SocketError)
            ELSE [W1 EXCEPT
                    !.io = Append(@, RecvEv(W.stream_socket, 8, 8)),
                    !.sockets[W.stream_socket[1]].initialized = TRUE,
                    !.product_version = Some(r.product_major),
                    !.protocol_version = Some(r.protocol_major)]

----------------------------------------------------------------------------
(* Authentication methods: [METHOD, username, credential, pid, hostname]   *)

\* name of the host the client runs on, socket.gethostname()
gethostname == "client"

\* the constructors: SAPHDBAuthScramMethod and SAPHDBAuthSessionCookieMethod
\* pass (username, pid=pid, hostname=hostname) to SAPHDBAuthMethod.__init__,
\* SAPHDBAuthJWTMethod and SAPHDBAuthSAMLMethod pass (pid, hostname)
\* positionally and then set username
SAPHDBAuthMethod(m, username, credential, pid, hostname) ==
    IF m \in {"JWT", "SAML"}
    THEN [METHOD |-> m, username |-> username, credential |-> credential,
          pid |-> hostname, hostname |-> None]
    ELSE [METHOD |-> m, username |-> username, credential |-> credential,
          pid |-> pid, hostname |-> hostname]

\* SAPHDBAuthMethod.client_id
client_id(am) ==
    (IF am.pid # None /\ am.pid # Some("") THEN am.pid[1] ELSE "pysap")
    \o "@"
    \o (IF am.hostname # None /\ am.hostname # Some("")
        THEN am.hostname[1] ELSE gethostname)

\* the [username, METHOD, value] fields both crafted parts carry
AuthFields(am, value) ==
    <<SAPHDBPartAuthenticationField(am.username, Len(am.username)),
      SAPHDBPartAuthenticationField(am.METHOD, Len(am.METHOD)),
      value>>

\* SAPHDBAuthMethod.craft_authentication_response_part
craft_authentication_response_part(am, value) ==
    SAPHDBPart(33, 1, SAPHDBPartAuthentication(AuthFields(am, value)))

\* SAPHDBAuthMethod.craft_authentication_request
craft_authentication_request(am, value) ==
    SAPHDB(<<Request(65, <<craft_authentication_response_part(am, value)>>)>>)

\* the value the method sends in the AUTHENTICATE request: the 64 bytes of
\* client key, the cookie followed by the client id, the token, the assertion
RequestValue(am) ==
    IF am.METHOD \in ScramMethods
    THEN SAPHDBPartAuthenticationField("client_key", 64)
    ELSE IF am.METHOD = "SessionCookie"
    THEN SAPHDBPartAuthenticationField(am.credential \o client_id(am),
                                       Len(am.credential \o client_id(am)))
    ELSE SAPHDBPartAuthenticationField(am.credential, Len(am.credential))

\* obtain_client_proof of the SCRAM methods on the fields of the reply: the
\* exception it raises, or None when the 35 bytes of proof are computed
obtain_client_proof(am, fields) ==
    IF Len(fields) < 2 THEN IndexError
    ELSE LET method_parts == fields[2].value
         IN IF Len(method_parts) < 2 THEN IndexError
            ELSE IF am.METHOD # "SCRAMPBKDF2SHA256" THEN None
            ELSE IF Len(method_parts) < 3 THEN IndexError
            ELSE IF method_parts[3] # 4
            THEN Exc("struct.error", "unpack requires a string argument of length 4")
            ELSE None

\* the checks without the comparison of the method name the server echoes
CheckReply_no_echo(W, am) ==
    LET resp == W.response[1]
    IN IF resp.segments = <<>> THEN Raise(W, IndexError)
       ELSE IF resp.segments[1].parts = <<>> THEN Raise(W, IndexError)
       ELSE IF resp.segments[1].parts[1].buffer = <<>> THEN Raise(W, IndexError)
       ELSE LET fields == resp.segments[1].parts[1].buffer[1].auth_fields
            IN IF fields = <<>> THEN Raise(W, IndexError)
               ELSE IF am.METHOD \in ScramMethods
               THEN IF obtain_client_proof(am, fields) # None
                    THEN Raise(W, obtain_client_proof(am, fields))
                    ELSE [W EXCEPT !.ret = Some(craft_authentication_response_part(am,
                              SAPHDBPartAuthenticationField("client_proof", 35)))]
               ELSE [W EXCEPT !.ret = Some(craft_authentication_response_part(am,
                              SAPHDBPartAuthenticationField("", 0)))]

\* the checks every method's authenticate runs on the reply to AUTHENTICATE
\* and the part it returns
CheckReply(W, am) ==
    LET resp == W.response[1]
    IN IF resp.segments = <<>> THEN Raise(W, IndexError)
       ELSE IF resp.segments[1].parts = <<>> THEN Raise(W, IndexError)
       ELSE IF resp.segments[1].parts[1].buffer = <<>> THEN Raise(W, IndexError)
       ELSE LET fields == resp.segments[1].parts[1].buffer[1].auth_fields
            IN IF fields = <<>> THEN Raise(W, IndexError)
               ELSE IF am.METHOD # fields[1].value
               THEN Raise(W, Exc("SAPHDBAuthenticationError",
                                 "Authentication method not supported on server"))
               ELSE IF am.METHOD \in ScramMethods
               THEN IF obtain_client_proof(am, fields) # None
                    THEN Raise(W, obtain_client_proof(am, fields))
                    ELSE [W EXCEPT !.ret = Some(craft_authentication_response_part(am,
                              SAPHDBPartAuthenticationField("client_proof", 35)))]
               ELSE [W EXCEPT !.ret = Some(craft_authentication_response_part(am,
                              SAPHDBPartAuthenticationField("", 0)))]

\* authenticate wiping the credential of the method once the request with
\* it is sent
method_authenticate_wipe(W, am, ok, r) ==
    LET W1 == sr(W, craft_authentication_request(am, RequestValue(am)), ok, r)
        W2 == [W1 EXCEPT !.auth_method.credential = ""]
    IN IF W2.raised # None THEN W2 ELSE CheckReply(W2, am)

\* authenticate(self, connection) of the authentication methods
method_authenticate(W, am, ok, r) ==
    LET W1 == sr(W, craft_authentication_request(am, RequestValue(am)), ok, r)
    IN IF W1.raised # None THEN W1 ELSE CheckReply(W1, am)

----------------------------------------------------------------------------
(* SAPHDBConnection.authenticate, in its two exchanges, and close *)

\* a part whose buffer is a plain string
StrBuffer(str) == [value |-> str, wire |-> Len(str)]

\* first half of SAPHDBConnection.authenticate: the handshake of the method
authenticate_handshake(W, am, ok, r) ==
    IF ~is_connected(W) THEN Raise(W, SocketNotReady)
    ELSE method_authenticate(W, am, ok, r)

\* the second half leaving the socket open on an Error segment
authenticate_connect_keep(W, am, ok, r) ==
    LET clientid_part == SAPHDBPart(35, 0, StrBuffer(client_id(am)))
        auth_segm == Request(66, <<W.ret[1], clientid_part>>)
        W1 == sr(W, SAPHDB(<<auth_segm>>), ok, r)
    IN IF W1.raised # None THEN W1
       ELSE IF W1.response[1].segments = <<>> THEN Raise(W1, IndexError)
       ELSE IF W1.response[1].segments[1].segmentkind = 5
       THEN Raise(W1, Exc("SAPHDBAuthenticationError", "Authentication failed"))
       ELSE W1

\* second half: the CONNECT packet built from the returned part, its reply
authenticate_connect(W, am, ok, r) ==
    LET clientid_part == SAPHDBPart(35, 0, StrBuffer(client_id(am)))
        auth_segm == Request(66, <<W.ret[1], clientid_part>>)
        W1 == sr(W, SAPHDB(<<auth_segm>>), ok, r)
    IN IF W1.raised # None THEN W1
       ELSE IF W1.response[1].segments = <<>> THEN Raise(W1, IndexError)
       ELSE IF W1.response[1].segments[1].segmentkind = 5
       THEN Raise(close_socket(W1),
                  Exc("SAPHDBAuthenticationError", "Authentication failed"))
       ELSE W1

IncorrectlyClosed == Exc("SAPHDBConnectionError", "Connection incorrectly closed")

AlreadyClosed == Exc("SAPHDBConnectionError", "Connection already closed")

\* the check close runs on the reply to DISCONNECT
CloseCheck(W1) ==
    IF W1.raised = SocketError
    THEN Raise(W1, Exc("SAPHDBConnectionError",
                       "Error closing the connection to the server"))
    ELSE IF W1.raised # None THEN W1
    ELSE IF W1.response[1].segments = <<>> THEN Raise(W1, IndexError)
    ELSE IF W1.response[1].segments[1].segmentkind # 2
            \/ W1.response[1].segments[1].functioncode # Some(18)
    THEN Raise(W1, IncorrectlyClosed)
    ELSE W1

\* close releasing the socket only when the disconnect went well
close_no_finally(W, ok, r) ==
    IF ~is_connected(W) THEN Raise(W, AlreadyClosed)
    ELSE LET W2 == CloseCheck(sr(W, SAPHDB(<<Request(77, <<>>)>>), ok, r))
         IN IF W2.raised # None THEN W2 ELSE close_socket(W2)

\* close accepting any Reply segment, whatever its function code
close_any_reply(W, ok, r) ==
    IF ~is_connected(W) THEN Raise(W, AlreadyClosed)
    ELSE LET W1 == sr(W, SAPHDB(<<Request(77, <<>>)>>), ok, r)
             W2 == IF W1.raised = SocketError
                   THEN Raise(W1, Exc("SAPHDBConnectionError",
                                      "Error closing the connection to the server"))
                   ELSE IF W1.raised # None THEN W1
                   ELSE IF W1.response[1].segments = <<>> THEN Raise(W1, IndexError)
                   ELSE IF W1.response[1].segments[1].segmentkind # 2
                   THEN Raise(W1, IncorrectlyClosed)
                   ELSE W1
         IN Raise(close_socket(W2), W2.raised)

\* SAPHDBConnection.close
close(W, ok, r) ==
    IF ~is_connected(W) THEN Raise(W, AlreadyClosed)
    ELSE LET W2 == CloseCheck(sr(W, SAPHDB(<<Request(77, <<>>)>>), ok, r))
         IN Raise(close_socket(W2), W2.raised)

----------------------------------------------------------------------------
(* The state machine *)

NoSocket == [state |-> "unused", initialized |-> FALSE]

Init ==
    /\ stream_socket = None
    /\ product_version = None
    /\ protocol_version = None
    /\ auth_method \in { SAPHDBAuthMethod(m, "user", "secret", None, None) :
                           m \in Methods }
    /\ sockets = [i \in 1..MaxSockets |-> NoSocket]
    /\ last = [op |-> "__init__", raised |-> None, io |-> <<>>,
               frame |-> None, response |-> None, replies |-> <<>>]

\* the state a call starts in
W0 ==
    [stream_socket |-> stream_socket, product_version |-> product_version,
     protocol_version |-> protocol_version, auth_method |-> auth_method,
     sockets |-> sockets,
     raised |-> None, io |-> <<>>, frame |-> None, response |-> None,
     replies |-> <<>>, ret |-> None]

\* the state a call ends in
Finish(op, W) ==
    /\ stream_socket' = W.stream_socket
    /\ product_version' = W.product_version
    /\ protocol_version' = W.protocol_version
    /\ sockets' = W.sockets
    /\ last' = [op |-> op, raised |-> W.raised, io |-> W.io,
                frame |-> W.frame, response |-> W.response,
                replies |-> W.replies]
    /\ auth_method' = W.auth_method

\* the inputs a call draws from: without a socket no call reaches the peer,
\* so one input stands for all
RepliesOf == [m \in saphdb_auth_methods |-> Replies(m)]

ExchangesOf == [m \in saphdb_auth_methods |-> Exchanges(m)]

OneOf(S) == IF stream_socket # None THEN S ELSE {CHOOSE x \in S : TRUE}

RecvInputs == OneOf(RepliesOf[auth_method.METHOD])

SrInputs == OneOf(ExchangesOf[auth_method.METHOD])

\* the packets a caller hands to send and sr
UserMessages == { SAPHDB(<<Request(2, <<>>)>>) }

Unused == { i \in 1..MaxSockets : sockets[i].state = "unused" }

\* the id of the next socket the system hands out
NextSocket == CHOOSE i \in Unused : \A j \in Unused : i <= j

Connect ==
    \E ok \in BOOLEAN,
       collected \in IF stream_socket # None THEN BOOLEAN ELSE {FALSE} :
        /\ ok => Unused # {}
        /\ Finish("connect",
                  dropped(connect(W0, ok, IF ok THEN NextSocket ELSE 0),
                          stream_socket, collected))

Send ==
    \E message \in UserMessages, ok \in BOOLEAN :
        Finish("send", send(W0, message, ok))

Recv ==
    \E r \in RecvInputs : Finish("recv", recv(W0, r))

Sr ==
    \E message \in UserMessages, x \in SrInputs :
        Finish("sr", sr(W0, message, x.ok, x.r))

Initialize ==
    \E x \in OneOf(InitExchanges) :
        Finish("initialize", initialize(W0, x.ok, x.r))

\* authenticate from state W: the second exchange happens when the first
\* one raised nothing
AuthenticateFrom(op, W) ==
    \E x1 \in IF is_connected(W) THEN ExchangesOf[auth_method.METHOD]
               ELSE SrInputs :
        LET W1 == authenticate_handshake(W, auth_method, x1.ok, x1.r)
        IN IF W1.raised # None THEN Finish(op, W1)
           ELSE \E x2 \in ExchangesOf[auth_method.METHOD] :
                    Finish(op, authenticate_connect(W1, auth_method, x2.ok, x2.r))

Authenticate == AuthenticateFrom("authenticate", W0)

\* connect_authenticate: connect when there is no socket, then initialize,
\* then authenticate; each step happens when the one before raised nothing
ConnectAuthenticate ==
    \E cok \in BOOLEAN :
        /\ (~is_connected(W0) /\ cok) => Unused # {}
        /\ LET W1 == IF ~is_connected(W0)
                     THEN connect(W0, cok, IF cok THEN NextSocket ELSE 0)
                     ELSE W0
           IN IF W1.raised # None THEN Finish("connect_authenticate", W1)
              ELSE IF W1.product_version # None /\ W1.protocol_version # None
              THEN AuthenticateFrom("connect_authenticate",
                                    initialize(W1, TRUE, CHOOSE r \in InitReplies : TRUE))
              ELSE \E x \in InitExchanges :
                     LET W2 == initialize(W1, x.ok, x.r)
                     IN IF W2.raised # None
                        THEN Finish("connect_authenticate", W2)
                        ELSE AuthenticateFrom("connect_authenticate", W2)

Close ==
    \E x \in SrInputs :
        Finish("close", close(W0, x.ok, x.r))

CloseSocket == Finish("close_socket", close_socket(W0))

Next ==
    \/ Connect
    \/ Send
    \/ Recv
    \/ Sr
    \/ Initialize
    \/ Authenticate
    \/ ConnectAuthenticate
    \/ Close
    \/ CloseSocket

Spec == Init /\ [][Next]_vars

----------------------------------------------------------------------------
(* The state machine of SAPHDBTLSConnection: connect is overridden, every  *)
(* other method is inherited.                                              *)

TLSConnect ==
    \E ok \in BOOLEAN,
       collected \in IF stream_socket # None THEN BOOLEAN ELSE {FALSE} :
        /\ ok => Unused # {}
        /\ Finish("connect",
                  dropped(tls_connect(W0, ok, IF ok THEN NextSocket ELSE 0),
                          stream_socket, collected))

\* connect_authenticate calling the overridden connect
TLSConnectAuthenticate ==
    \E cok \in BOOLEAN :
        /\ (~is_connected(W0) /\ cok) => Unused # {}
        /\ LET W1 == IF ~is_connected(W0)
                     THEN tls_connect(W0, cok, IF cok THEN NextSocket ELSE 0)
                     ELSE W0
           IN IF W1.raised # None THEN Finish("connect_authenticate", W1)
              ELSE IF W1.product_version # None /\ W1.protocol_version # None
              THEN AuthenticateFrom("connect_authenticate",
                                    initialize(W1, TRUE, CHOOSE r \in InitReplies : TRUE))
              ELSE \E x \in InitExchanges :
                     LET W2 == initialize(W1, x.ok, x.r)
                     IN IF W2.raised # None
                        THEN Finish("connect_authenticate", W2)
                        ELSE AuthenticateFrom("connect_authenticate", W2)

TLSNext ==
    \/ TLSConnect
    \/ Send
    \/ Recv
    \/ Sr
    \/ Initialize
    \/ Authenticate
    \/ TLSConnectAuthenticate
    \/ Close
    \/ CloseSocket

TLSSpec == Init /\ [][TLSNext]_vars

----------------------------------------------------------------------------
(* Construction of the authentication methods: every method, with and      *)
(* without a pid and a hostname, and the client id it then reports.        *)

\* the pid and hostname arguments of a constructor (None: not supplied)
Pids == {None, Some("1234"), Some("77")}

Hostnames == {None, Some("hana"), Some("db1")}

Usernames == {"user", "SYSTEM"}

\* the state after SAPHDBAuth<m>Method(username, credential, pid, hostname);
\* the call and its arguments are kept in last
IdInit ==
    /\ stream_socket = None
    /\ product_version = None
    /\ protocol_version = None
    /\ sockets = [i \in 1..MaxSockets |-> NoSocket]
    /\ \E m \in saphdb_auth_methods, username \in Usernames,
          pid \in Pids, hostname \in Hostnames :
          /\ auth_method = SAPHDBAuthMethod(m, username, "secret", pid, hostname)
          /\ last = [op |-> "__init__", pid |-> pid, hostname |-> hostname,
                     ret |-> None]

\* reading the client_id property
ClientId ==
    /\ last' = [last EXCEPT !.op = "client_id",
                            !.ret = Some(client_id(auth_method))]
    /\ UNCHANGED <<stream_socket, product_version, protocol_version,
                   auth_method, sockets>>

IdNext == ClientId

IdSpec == IdInit /\ [][IdNext]_vars

----------------------------------------------------------------------------
(* The handshake of every authentication method: a connection constructed  *)
(* with any of the five methods, connected, initialized and authenticated. *)

AuthInit ==
    /\ stream_socket = None
    /\ product_version = None
    /\ protocol_version = None
    /\ auth_method \in { SAPHDBAuthMethod(m, "user", "secret", None, None) :
                           m \in saphdb_auth_methods }
    /\ sockets = [i \in 1..MaxSockets |-> NoSocket]
    /\ last = [op |-> "__init__", raised |-> None, io |-> <<>>,
               frame |-> None, response |-> None, replies |-> <<>>]

AuthNext ==
    \/ ConnectAuthenticate
    \/ Authenticate
    \/ CloseSocket

AuthSpec == AuthInit /\ [][AuthNext]_vars

----------------------------------------------------------------------------
(* The packets on the wire, byte by byte: what building a packet (str(v))  *)
(* and dissecting bytes (SAPHDB(raw)) do with the fields_desc of SAPHDB,   *)
(* SAPHDBSegment and SAPHDBPart.  A byte string is a sequence of 0..255.   *)
(* A value here is [sessionid, packetcount, varpartlength, noofsegm,       *)
(* segments] with segments [segmentlength, noofparts, segmentkind,         *)
(* messagetype, functioncode, parts] and parts [partkind, argumentcount,   *)
(* bufferlength, buffer]; a length or count field that was not set is      *)
(* None, the buffer is the list of the byte strings it was given.  The     *)
(* fields left out keep their defaults.                                    *)

\* SAPHDBPart.buffersize default
buffersize == 2^17 - 32 - 24

Zeros(n) == [i \in 1..n |-> 0]

\* n >= 0 in w bytes, little endian
RECURSIVE LE(_, _)
LE(n, w) == IF w = 0 THEN <<>> ELSE <<n % 256>> \o LE(n \div 256, w - 1)

\* a signed n in w bytes, little endian, two's complement
LESigned(n, w) ==
    IF n >= 0 THEN LE(n, w) ELSE [i \in 1..w |-> 255 - LE(-n - 1, w)[i]]

\* the unsigned value of little-endian bytes
RECURSIVE LEVal(_)
LEVal(b) == IF b = <<>> THEN 0 ELSE Head(b) + 256 * LEVal(Tail(b))

\* the signed value of little-endian bytes
LESignedVal(b) ==
    IF b[Len(b)] >= 128
    THEN -LEVal([i \in 1..Len(b) |-> 255 - b[i]]) - 1
    ELSE LEVal(b)

\* the bytes from position i on
From(b, i) == SubSeq(b, i, Len(b))

\* b"".join(list)
RECURSIVE Join(_)
Join(list) == IF list = <<>> THEN <<>> ELSE Head(list) \o Join(Tail(list))

\* a value of a length or count field: the one that was set, else computed
Auto(field, computed) == IF field # None THEN field[1] ELSE computed

\* the part without the PadField around its buffer
build_SAPHDBPart_no_pad(p) ==
    LET buf == Join(p.buffer)
    IN LESigned(p.partkind, 1) \o LESigned(0, 1)
       \o LESigned(p.argumentcount, 2) \o LESigned(0, 4)
       \o LESigned(Auto(p.bufferlength, Len(buf)), 4)
       \o LESigned(buffersize, 4)
       \o buf

\* str(SAPHDBPart): the 16 bytes of header, bufferlength taken from the
\* buffer before padding, then the buffer padded with zeros to 8 bytes
build_SAPHDBPart(p) ==
    LET buf == Join(p.buffer)
    IN LESigned(p.partkind, 1) \o LESigned(0, 1)
       \o LESigned(p.argumentcount, 2) \o LESigned(0, 4)
       \o LESigned(Auto(p.bufferlength, Len(buf)), 4)
       \o LESigned(buffersize, 4)
       \o buf \o Zeros(Pad8(Len(buf)) - Len(buf))

RECURSIVE build_parts(_)
build_parts(ps) ==
    IF ps = <<>> THEN <<>>
    ELSE build_SAPHDBPart(Head(ps)) \o build_parts(Tail(ps))

\* the 11 bytes written as for a request whatever the kind of the segment
build_kind_fields_request(s) ==
    LESigned(IF s.messagetype # None THEN s.messagetype[1] ELSE 0, 1)
    \o <<0, 0>> \o Zeros(8)

\* the 11 bytes that follow segmentkind: the ConditionalFields of a
\* request, of a reply, of any other kind
build_kind_fields(s) ==
    IF s.segmentkind = 1
    THEN LESigned(s.messagetype[1], 1) \o <<0, 0>> \o Zeros(8)
    ELSE IF s.segmentkind = 2
    THEN <<0>> \o LESigned(s.functioncode[1], 2) \o Zeros(8)
    ELSE Zeros(11)

\* the segment with a segmentlength that leaves the header out
build_SAPHDBSegment_no_adjust(s) ==
    LET parts == build_parts(s.parts)
    IN LESigned(Auto(s.segmentlength, Len(parts)), 4) \o LESigned(0, 4)
       \o LESigned(Auto(s.noofparts, Len(s.parts)), 2) \o LESigned(1, 2)
       \o LESigned(s.segmentkind, 1) \o build_kind_fields(s)
       \o parts

\* str(SAPHDBSegment): the 24 bytes of header, segmentlength being the
\* length of the parts adjusted by 24, then the parts
build_SAPHDBSegment(s) ==
    LET parts == build_parts(s.parts)
    IN LESigned(Auto(s.segmentlength, Len(parts) + 24), 4) \o LESigned(0, 4)
       \o LESigned(Auto(s.noofparts, Len(s.parts)), 2) \o LESigned(1, 2)
       \o LESigned(s.segmentkind, 1) \o build_kind_fields(s)
       \o parts

RECURSIVE build_segments(_)
build_segments(ss) ==
    IF ss = <<>> THEN <<>>
    ELSE build_SAPHDBSegment(Head(ss)) \o build_segments(Tail(ss))

\* str(SAPHDB): the 32 bytes of header, then the segments
build_SAPHDB(v) ==
    LET segments == build_segments(v.segments)
    IN LESigned(v.sessionid, 8) \o LESigned(v.packetcount, 4)
       \o LE(Auto(v.varpartlength, Len(segments)), 4) \o LE(varpartsize, 4)
       \o LESigned(Auto(v.noofsegm, Len(v.segments)), 2)
       \o <<0, 0>> \o LE(0, 4) \o Zeros(4)
       \o segments

\* SAPHDBPart(b) for b holding at least the header: the buffer is a
\* PacketListField with neither a class nor a length, so all the bytes after
\* the header become one raw element of the buffer and nothing is left
dissect_SAPHDBPart(b) ==
    [part |-> [partkind |-> LESignedVal(SubSeq(b, 1, 1)),
               argumentcount |-> LESignedVal(SubSeq(b, 3, 4)),
               bufferlength |-> Some(LESignedVal(SubSeq(b, 9, 12))),
               buffer |-> IF Len(b) > 16 THEN <<From(b, 17)>> ELSE <<>>],
     rest |-> <<>>]

\* the parts field, a list of count SAPHDBPart: parts are dissected while
\* bytes remain and the count is not reached
RECURSIVE dissect_parts(_, _)
dissect_parts(b, count) ==
    IF b = <<>> \/ count <= 0 THEN [list |-> <<>>, rest |-> b]
    ELSE LET p == dissect_SAPHDBPart(b)
             more == dissect_parts(p.rest, count - 1)
         IN [list |-> <<p.part>> \o more.list, rest |-> more.rest]

\* SAPHDBSegment(b) for b holding at least the header
dissect_SAPHDBSegment(b) ==
    LET kind == LESignedVal(SubSeq(b, 13, 13))
        noofparts == LESignedVal(SubSeq(b, 9, 10))
        parts == dissect_parts(From(b, 25), noofparts)
    IN [segment |->
          [segmentlength |-> Some(LESignedVal(SubSeq(b, 1, 4))),
           noofparts |-> Some(noofparts),
           segmentkind |-> kind,
           messagetype |-> IF kind = 1 THEN Some(LESignedVal(SubSeq(b, 14, 14)))
                           ELSE None,
           functioncode |-> IF kind = 2 THEN Some(LESignedVal(SubSeq(b, 15, 16)))
                            ELSE None,
           parts |-> parts.list],
        rest |-> parts.rest]

RECURSIVE dissect_segments(_, _)
dissect_segments(b, count) ==
    IF b = <<>> \/ count <= 0 THEN [list |-> <<>>, rest |-> b]
    ELSE LET sg == dissect_SAPHDBSegment(b)
             more == dissect_segments(sg.rest, count - 1)
         IN [list |-> <<sg.segment>> \o more.list, rest |-> more.rest]

\* SAPHDB(b) for b holding at least the header
dissect_SAPHDB(b) ==
    LET noofsegm == LESignedVal(SubSeq(b, 21, 22))
    IN [sessionid |-> LESignedVal(SubSeq(b, 1, 8)),
        packetcount |-> LESignedVal(SubSeq(b, 9, 12)),
        varpartlength |-> Some(LEVal(SubSeq(b, 13, 16))),
        noofsegm |-> Some(noofsegm),
        segments |-> dissect_segments(From(b, 33), noofsegm).list]

\* the packets that are built and dissected: parts without a buffer, with
\* a buffer that needs padding and with one that needs none
CodecBuffers == { <<>>, << <<115, 97, 112>> >>, << <<112, 121, 115, 97, 112, 64, 104, 49>> >> }

CodecParts ==
    { [partkind |-> 33, argumentcount |-> 1, bufferlength |-> None,
       buffer |-> buf] : buf \in CodecBuffers }

\* the lists of at most n elements of S
ListsUpTo(S, n) == UNION { [1..k -> S] : k \in 0..n }

\* most parts of one segment
MaxParts == 2

\* a request (CONNECT), a reply (CONNECT), an error segment and an invalid
\* one: the kinds of hdb_segmentkind_values
CodecSegments ==
    { [segmentlength |-> None, noofparts |-> None, segmentkind |-> k[1],
       messagetype |-> k[2], functioncode |-> k[3], parts |-> ps] :
        k \in { <<1, Some(66), None>>, <<2, None, Some(14)>>,
                <<5, None, None>>, <<0, None, None>> },
        ps \in ListsUpTo(CodecParts, MaxParts) }

\* packets of no segment, of one segment and of a request followed by any
\* segment
CodecSegmentLists ==
    { <<>> } \cup { <<sg>> : sg \in CodecSegments }
    \cup { <<a, sg>> : a \in { x \in CodecSegments :
                                  x.segmentkind = 1 /\ Len(x.parts) <= 1 },
                       sg \in { x \in CodecSegments : Len(x.parts) <= 1 } }

CodecPackets ==
    { [sessionid |-> sid, packetcount |-> 0, varpartlength |-> None,
       noofsegm |-> None, segments |-> ss] :
        sid \in {-1} \cup SessionIds, ss \in CodecSegmentLists }

\* a packet v was constructed
CodecInit ==
    /\ stream_socket = None
    /\ product_version = None
    /\ protocol_version = None
    /\ auth_method = None
    /\ sockets = [i \in 1..MaxSockets |-> NoSocket]
    /\ \E v \in CodecPackets :
          last = [op |-> "SAPHDB", packet |-> v, raw |-> None,
                  dissected |-> None]

\* str(v)
Build ==
    /\ last.op = "SAPHDB"
    /\ last' = [last EXCEPT !.op = "build",
                            !.raw = Some(build_SAPHDB(last.packet))]
    /\ UNCHANGED <<stream_socket, product_version, protocol_version,
                   auth_method, sockets>>

\* SAPHDB(str(v))
Dissect ==
    /\ last.op = "build"
    /\ last' = [last EXCEPT !.op = "dissect",
                            !.dissected = Some(dissect_SAPHDB(last.raw[1]))]
    /\ UNCHANGED <<stream_socket, product_version, protocol_version,
                   auth_method, sockets>>

CodecNext ==
    \/ Build
    \/ Dissect

CodecSpec == CodecInit /\ [][CodecNext]_vars

----------------------------------------------------------------------------
(* Properties *)

IsSend(e) == e.ev = "send"

IsRecv(e) == e.ev = "recv"

\* e is the sending of an HDB packet
IsHDB(e) == IsSend(e) /\ e.message # SAPHDBInitializationRequest

\* e is the sending of an HDB packet of one Request segment of type mt
Sends(e, mt) ==
    /\ IsHDB(e)
    /\ Len(e.message.segments) = 1
    /\ e.message.segments[1].segmentkind = 1
    /\ e.message.segments[1].messagetype = Some(mt)

\* the initialization exchange is complete on socket s before event i of io
InitializedBefore(io, i, s) ==
    \E j \in 1..(i - 1), k \in 1..(i - 1) :
        /\ j < k
        /\ io[j] = SendEv(s, SAPHDBInitializationRequest)
        /\ io[k] = RecvEv(s, 8, 8)

\* the call was an authenticate that sent CONNECT and got a reply to it
ConnectReplied ==
    /\ last.op \in {"authenticate", "connect_authenticate"}
    /\ \E i \in 1..(Len(last.io) - 1) : Sends(last.io[i], 66)
    /\ last.response # None

\* the socket the I/O of the last call went to
LastSocket == last.io[1].sock[1]

\* C1: no AUTHENTICATE (65) or CONNECT (66) packet is sent on a socket
\* before the initialization exchange has completed on that socket
C1_NoAuthBeforeInit ==
    [][\A i \in DOMAIN last'.io :
          (Sends(last'.io[i], 65) \/ Sends(last'.io[i], 66))
          => \/ sockets[last'.io[i].sock[1]].initialized
             \/ InitializedBefore(last'.io, i, last'.io[i].sock)]_vars

\* C2: when authenticate fails with an authentication error (the server
\* echoing another method name, or answering CONNECT with an Error segment)
\* the socket is closed and the connection is no longer connected
C2_AuthFailureClosesSocket ==
    (/\ last.op \in {"authenticate", "connect_authenticate"}
     /\ last.raised # None
     /\ last.raised[1].type = "SAPHDBAuthenticationError")
    => stream_socket = None

\* C3: when the first segment of the reply to CONNECT has segmentkind 5 the
\* socket is closed and AuthenticationError("Authentication failed") is
\* raised; with any other kind nothing is raised and the socket stays open
C3_ErrorSegment ==
    (ConnectReplied /\ last.response[1].segments # <<>>)
    => IF last.response[1].segments[1].segmentkind = 5
       THEN /\ last.raised = Exc("SAPHDBAuthenticationError", "Authentication failed")
            /\ stream_socket = None
            /\ sockets[LastSocket].state = "closed"
       ELSE /\ last.raised = None
            /\ stream_socket = Some(LastSocket)
            /\ sockets[LastSocket].state = "open"

\* C3 witness: CONNECT was answered with an Error segment and the socket
\* is closed
C3_Witness ==
    /\ ConnectReplied
    /\ last.response[1].segments # <<>>
    /\ last.response[1].segments[1].segmentkind = 5
    /\ stream_socket = None

\* C4: close on a connected connection leaves the socket closed and the
\* reference to it cleared, whatever happened on the disconnect path
C4_CloseReleasesSocket ==
    [][(last'.op = "close" /\ stream_socket # None)
       => /\ stream_socket' = None
          /\ sockets'[stream_socket[1]].state = "closed"]_vars

\* C4 witness: close raised "Connection incorrectly closed" and the socket
\* it was called on is closed and no longer referenced
C4_Witness ==
    /\ last.op = "close"
    /\ last.raised = IncorrectlyClosed
    /\ stream_socket = None
    /\ sockets[LastSocket].state = "closed"

\* C5: a close that got a reply with a first segment sent exactly one
\* packet, a single Request segment of messagetype 77, and returned without
\* error exactly when that segment has segmentkind 2 and functioncode 18;
\* otherwise it raised ConnectionError("Connection incorrectly closed")
C5_CloseReply ==
    (last.op = "close" /\ last.response # None
       /\ last.response[1].segments # <<>>)
    => /\ Len(SelectSeq(last.io, IsSend)) = 1
       /\ Sends(SelectSeq(last.io, IsSend)[1], 77)
       /\ last.raised = None
            <=> (/\ last.response[1].segments[1].segmentkind = 2
                 /\ last.response[1].segments[1].functioncode = Some(18))
       /\ last.raised # None => last.raised = IncorrectlyClosed

\* C5 witness: a close answered by Reply/DISCONNECT returned without error
C5_Witness ==
    /\ last.op = "close"
    /\ last.response # None
    /\ last.response[1].segments # <<>>
    /\ last.response[1].segments[1].functioncode = Some(18)
    /\ last.raised = None

\* C6: without a socket, send, recv, sr, initialize, authenticate and close
\* raise ConnectionError, do no I/O and leave the socket reference and the
\* versions unchanged
C6_NoSocket ==
    [][(/\ stream_socket = None
        /\ last'.op \in {"send", "recv", "sr", "initialize", "authenticate",
                         "close"})
       => /\ last'.raised # None
          /\ last'.raised[1].type = "SAPHDBConnectionError"
          /\ last'.io = <<>>
          /\ UNCHANGED <<stream_socket, product_version, protocol_version>>]_vars

\* C6 witness: after a socket was opened and closed, a call was refused
\* with ConnectionError
C6_Witness ==
    /\ last.op \in {"send", "recv", "sr", "initialize", "authenticate", "close"}
    /\ last.raised \in {SocketNotReady, AlreadyClosed}
    /\ stream_socket = None
    /\ \E i \in 1..MaxSockets : sockets[i].state = "closed"

\* C7: on a connected connection with both versions populated, initialize
\* sends nothing, reads nothing, raises nothing and changes nothing
C7_InitializeIdempotent ==
    [][(/\ stream_socket # None
        /\ product_version # None
        /\ protocol_version # None
        /\ last'.op = "initialize")
       => /\ last'.io = <<>>
          /\ last'.raised = None
          /\ UNCHANGED <<stream_socket, product_version, protocol_version,
                         sockets>>]_vars

\* C7 witness: an initialize on a connected, initialized connection
\* returned without I/O
C7_Witness ==
    /\ last.op = "initialize"
    /\ last.io = <<>>
    /\ last.raised = None
    /\ stream_socket # None
    /\ product_version # None
    /\ protocol_version # None

\* C8: two HDB packets sent one after the other on the same socket never
\* carry the same packetcount
C8_PacketCountAdvances ==
    \A i \in DOMAIN last.io : \A j \in DOMAIN last.io :
        (/\ i < j
         /\ IsHDB(last.io[i])
         /\ IsHDB(last.io[j])
         /\ last.io[i].sock = last.io[j].sock)
        => last.io[i].message.packetcount # last.io[j].message.packetcount

\* C9: a recv whose reads all returned bytes, in however many chunks,
\* returns the packet that is on the stream
C9_ShortReads ==
    (/\ last.op = "recv"
     /\ last.raised = None
     /\ last.io # <<>>
     /\ \A i \in DOMAIN last.io : last.io[i].got > 0)
    => last.response = last.frame

\* C10: a recv that met a read of zero bytes, at the header or at the
\* payload, fails with a connection error
C10_PeerClosed ==
    (/\ last.op = "recv"
     /\ \E i \in DOMAIN last.io : last.io[i].got = 0)
    => /\ last.raised # None
       /\ last.raised[1].type = "SAPHDBConnectionError"

\* C11: a connect that fails, on a plain, routed or TLS connection, raises
\* ConnectionError and leaves the socket reference as it was
C11_ConnectFailure ==
    [][(last'.op = "connect" /\ last'.raised # None)
       => /\ last'.raised[1].type = "SAPHDBConnectionError"
          /\ stream_socket' = stream_socket]_vars

\* C12: close_socket raises nothing and leaves the connection without a
\* socket, whatever the state it is called in
C12_CloseSocketAnyState ==
    last.op = "close_socket" => (last.raised = None /\ stream_socket = None)

\* every read of the call returned all the bytes it asked for
Cooperative(io) == \A i \in DOMAIN io : IsRecv(io[i]) => io[i].got = io[i].want

\* the reads that take packet p whole from socket s: the 32 bytes of header,
\* then the payload when there is one
ReadsOf(s, p) ==
    <<RecvEv(s, 32, 32)>>
    \o (IF p.varpartlength[1] > 0
        THEN <<RecvEv(s, p.varpartlength[1], p.varpartlength[1])>> ELSE <<>>)

\* C13: against a server that answers every request in full, a
\* connect_authenticate on a fresh connection sends the initialization
\* request, AUTHENTICATE (65) and CONNECT (66) in this order and a close
\* sends DISCONNECT (77); each request is followed by the reads that take
\* its whole reply before the next request is sent
C13_StrictAlternation ==
    [][/\ (/\ last'.op = "connect_authenticate"
            /\ last'.raised = None
            /\ stream_socket = None
            /\ product_version = None
            /\ Cooperative(last'.io))
           => LET sends == SelectSeq(last'.io, IsSend)
                  s == stream_socket'
              IN /\ Len(sends) = 3
                 /\ sends[1] = SendEv(s, SAPHDBInitializationRequest)
                 /\ Sends(sends[2], 65)
                 /\ Sends(sends[3], 66)
                 /\ Len(last'.replies) = 2
                 /\ last'.io = <<sends[1], RecvEv(s, 8, 8), sends[2]>>
                                \o ReadsOf(s, last'.replies[1])
                                \o <<sends[3]>>
                                \o ReadsOf(s, last'.replies[2])
       /\ (/\ last'.op = "close"
            /\ last'.raised = None
            /\ Cooperative(last'.io))
           => LET sends == SelectSeq(last'.io, IsSend)
              IN /\ Len(sends) = 1
                 /\ Sends(sends[1], 77)
                 /\ Len(last'.replies) = 1
                 /\ last'.io = <<sends[1]>>
                                \o ReadsOf(stream_socket, last'.replies[1])]_vars

\* C13 witness: a connect_authenticate that ran its three exchanges against
\* a server answering in full
C13_Witness ==
    /\ last.op = "connect_authenticate"
    /\ last.raised = None
    /\ Cooperative(last.io)
    /\ Len(last.io) = 8
    /\ Len(last.replies) = 2
    /\ Sends(last.io[6], 66)

\* C14: client_id is "<pid>@<hostname>" with the pid and the hostname the
\* method was constructed with, "pysap" standing for a pid that was not
\* supplied and the name of the host for a hostname that was not supplied
C14_ClientId ==
    last.op = "client_id"
    => last.ret = Some((IF last.pid # None THEN last.pid[1] ELSE "pysap")
                       \o "@"
                       \o (IF last.hostname # None THEN last.hostname[1]
                           ELSE gethostname))

\* the fields of the authentication part of the first part of the first
\* segment of packet p, none when p has no such part
FirstFields(p) ==
    IF p.segments = <<>> THEN <<>>
    ELSE IF p.segments[1].parts = <<>> THEN <<>>
    ELSE IF p.segments[1].parts[1].buffer = <<>> THEN <<>>
    ELSE p.segments[1].parts[1].buffer[1].auth_fields

\* the challenge in the fields of a reply has the fields method m needs:
\* salt and server key, for SCRAMPBKDF2SHA256 also the 4 bytes of rounds
WellFormedChallenge(m, fields) ==
    \/ m \notin ScramMethods
    \/ /\ Len(fields) >= 2
       /\ fields[2].nested
       /\ Len(fields[2].value) >= 2
       /\ m = "SCRAMPBKDF2SHA256"
          => (Len(fields[2].value) >= 3 /\ fields[2].value[3] = 4)

IsConnect(e) == Sends(e, 66)

AuthOps == {"authenticate", "connect_authenticate"}

\* C15: when the reply to AUTHENTICATE carries a method name in field 0 and
\* the name differs from the METHOD of the method in use, authenticate
\* raises AuthenticationError and sends no CONNECT packet; when it is equal
\* (and the challenge is well formed) exactly one CONNECT packet is sent,
\* unless the socket refuses it, and its first part is the authentication
\* part [username, METHOD, value]
C15_MethodEcho ==
    (/\ last.op \in AuthOps
     /\ last.replies # <<>>
     /\ FirstFields(last.replies[1]) # <<>>)
    => LET fields == FirstFields(last.replies[1])
           connects == SelectSeq(last.io, IsConnect)
       IN IF fields[1].value # auth_method.METHOD
          THEN /\ last.raised = Exc("SAPHDBAuthenticationError",
                                    "Authentication method not supported on server")
               /\ connects = <<>>
               /\ Len(last.replies) = 1
          ELSE WellFormedChallenge(auth_method.METHOD, fields)
               => \/ /\ last.raised = SocketError
                     /\ Len(last.replies) = 1
                     /\ connects = <<>>
                  \/ /\ Len(connects) = 1
                     /\ Len(connects[1].message.segments[1].parts) = 2
                     /\ LET part == connects[1].message.segments[1].parts[1]
                        IN /\ part.partkind = 33
                           /\ Len(part.buffer[1].auth_fields) = 3
                           /\ part.buffer[1].auth_fields[1].value
                                = auth_method.username
                           /\ part.buffer[1].auth_fields[2].value
                                = auth_method.METHOD

\* C15 witness: the server echoed the name of the method and the CONNECT
\* packet was sent and answered
C15_Witness ==
    /\ last.op \in AuthOps
    /\ Len(last.replies) = 2
    /\ FirstFields(last.replies[1]) # <<>>
    /\ FirstFields(last.replies[1])[1].value = auth_method.METHOD
    /\ auth_method.METHOD = "SAML"
    /\ Len(SelectSeq(last.io, IsConnect)) = 1
    /\ last.raised = None

\* C16: when the server echoes the name of a SCRAM method and its challenge
\* has too few fields, or rounds that are not 4 bytes, authenticate fails
\* with AuthenticationError
C16_MalformedChallenge ==
    (/\ last.op \in AuthOps
     /\ auth_method.METHOD \in ScramMethods
     /\ last.replies # <<>>
     /\ FirstFields(last.replies[1]) # <<>>
     /\ FirstFields(last.replies[1])[1].value = auth_method.METHOD
     /\ ~WellFormedChallenge(auth_method.METHOD, FirstFields(last.replies[1])))
    => /\ last.raised # None
       /\ last.raised[1].type = "SAPHDBAuthenticationError"

\* the bytes a part and a segment of a constructed packet take on the wire
PartSize(p) == 16 + Pad8(Len(Join(p.buffer)))

RECURSIVE PartsSize(_)
PartsSize(ps) == IF ps = <<>> THEN 0 ELSE PartSize(Head(ps)) + PartsSize(Tail(ps))

SegmentSize(sg) == 24 + PartsSize(sg.parts)

RECURSIVE SegmentsSize(_)
SegmentsSize(ss) ==
    IF ss = <<>> THEN 0 ELSE SegmentSize(Head(ss)) + SegmentsSize(Tail(ss))

\* C17: dissecting the bytes a packet was built to gives the segments it
\* was built from: as many segments, of the same kind, message type and
\* function code, with as many parts, each with the same buffer (the
\* bufferlength bytes of it, whatever padding follows)
C17_RoundTrip ==
    last.op = "dissect"
    => LET v == last.packet
           d == last.dissected[1]
       IN /\ Len(d.segments) = Len(v.segments)
          /\ \A k \in DOMAIN v.segments :
                /\ d.segments[k].segmentkind = v.segments[k].segmentkind
                /\ d.segments[k].messagetype = v.segments[k].messagetype
                /\ d.segments[k].functioncode = v.segments[k].functioncode
                /\ Len(d.segments[k].parts) = Len(v.segments[k].parts)
                /\ \A i \in DOMAIN v.segments[k].parts :
                      SubSeq(Join(d.segments[k].parts[i].buffer), 1,
                             d.segments[k].parts[i].bufferlength[1])
                        = Join(v.segments[k].parts[i].buffer)

\* C20: in the bytes of a packet built with its length and count fields
\* unset, noofsegm is the number of segments, varpartlength the number of
\* bytes after the 32 of the header, and for every segment segmentlength is
\* 24 plus the sizes of its parts with their padding, noofparts the number
\* of its parts and the bufferlength of every part the length of its
\* buffer before padding
C20_AutoLengths ==
    last.op \in {"build", "dissect"}
    => LET v == last.packet
           raw == last.raw[1]
       IN /\ LESignedVal(SubSeq(raw, 21, 22)) = Len(v.segments)
          /\ LEVal(SubSeq(raw, 13, 16)) = Len(raw) - 32
          /\ \A k \in DOMAIN v.segments :
                LET sg == v.segments[k]
                    off == 32 + SegmentsSize(SubSeq(v.segments, 1, k - 1))
                IN /\ LESignedVal(SubSeq(raw, off + 1, off + 4))
                        = 24 + PartsSize(sg.parts)
                   /\ LESignedVal(SubSeq(raw, off + 9, off + 10)) = Len(sg.parts)
                   /\ \A i \in DOMAIN sg.parts :
                         LET poff == off + 24
                                       + PartsSize(SubSeq(sg.parts, 1, i - 1))
                         IN LESignedVal(SubSeq(raw, poff + 9, poff + 12))
                              = Len(Join(sg.parts[i].buffer))

\* C20 witness: a packet of one segment of two parts, with buffers of 3 and
\* of 8 bytes, was built: segmentlength is 24 + (16 + 8) + (16 + 8)
C20_Witness ==
    /\ last.op = "build"
    /\ Len(last.packet.segments) = 1
    /\ Len(last.packet.segments[1].parts) = 2
    /\ Len(Join(last.packet.segments[1].parts[1].buffer)) = 3
    /\ Len(Join(last.packet.segments[1].parts[2].buffer)) = 8
    /\ LESignedVal(SubSeq(last.raw[1], 33, 36)) = 72
    /\ LEVal(SubSeq(last.raw[1], 13, 16)) = 72

\* C18: the AUTHENTICATE packet carries sessionid -1, and the packets of a
\* close that follows an authenticate which went through carry the session
\* id of the server's reply to it
C18_SessionId ==
    [][/\ \A i \in DOMAIN last'.io :
             Sends(last'.io[i], 65) => last'.io[i].message.sessionid = -1
       /\ (/\ last.op \in AuthOps
            /\ last.raised = None
            /\ last.response # None
            /\ last'.op = "close")
           => \A i \in DOMAIN last'.io :
                 IsHDB(last'.io[i])
                 => last'.io[i].message.sessionid
                      = last.response[1].sessionid]_vars

\* C19: a recv that returns took one packet off the stream: it read the 32
\* bytes of the header, then the varpartlength bytes of the payload, with
\* no second read when varpartlength is 0, and returned that packet
C19_OneFrame ==
    (last.op = "recv" /\ last.raised = None)
    => LET f == last.frame[1]
           s == last.io[1].sock
       IN /\ last.io[1] = RecvEv(s, 32, 32)
          /\ IF f.varpartlength[1] = 0
             THEN Len(last.io) = 1
             ELSE /\ Len(last.io) = 2
                  /\ last.io[2] = RecvEv(s, f.varpartlength[1],
                                         f.varpartlength[1])
          /\ last.response = last.frame

\* C21: in the bytes of a built packet every part lies where the parts
\* before it, each of 16 bytes plus its buffer rounded up to 8, end: its
\* header and buffer are there, the bytes from the end of the buffer to the
\* next multiple of 8 are zeros, also after the last part, and the packet
\* ends where the last part ends
C21_PartPadding ==
    last.op \in {"build", "dissect"}
    => LET v == last.packet
           raw == last.raw[1]
       IN /\ Len(raw) = 32 + SegmentsSize(v.segments)
          /\ \A k \in DOMAIN v.segments :
                LET sg == v.segments[k]
                    off == 32 + SegmentsSize(SubSeq(v.segments, 1, k - 1))
                IN \A i \in DOMAIN sg.parts :
                     LET p == sg.parts[i]
                         n == Len(Join(p.buffer))
                         poff == off + 24 + PartsSize(SubSeq(sg.parts, 1, i - 1))
                     IN /\ (poff - off) % 8 = 0
                        /\ (poff + PartSize(p) - off) % 8 = 0
                        /\ poff + PartSize(p) <= Len(raw)
                        /\ LESignedVal(SubSeq(raw, poff + 1, poff + 1)) = p.partkind
                        /\ LESignedVal(SubSeq(raw, poff + 9, poff + 12)) = n
                        /\ SubSeq(raw, poff + 17, poff + 16 + n) = Join(p.buffer)
                        /\ \A j \in (poff + 16 + n + 1)..(poff + PartSize(p)) :
                              raw[j] = 0

\* C21 witness: a packet whose only part has a buffer of 3 bytes was built:
\* with no part following, the part still takes 16 + 8 bytes
C21_Witness ==
    /\ last.op = "build"
    /\ Len(last.packet.segments) = 1
    /\ Len(last.packet.segments[1].parts) = 1
    /\ Len(Join(last.packet.segments[1].parts[1].buffer)) = 3
    /\ Len(last.raw[1]) = 32 + 24 + 16 + 8
    /\ last.raw[1][80] = 0

\* C22: in the bytes of a built packet every segment has a header of 24
\* bytes with its kind at byte 13 and after it, for a request, messagetype,
\* two zero bytes and 8 reserved bytes, for a reply, a reserved byte,
\* functioncode in two bytes and 8 reserved bytes, for any other kind 11
\* reserved bytes; the first segment dissects to a segment of that kind
\* with messagetype only for a request and functioncode only for a reply
C22_SegmentHeader ==
    last.op \in {"build", "dissect"}
    => LET v == last.packet
           raw == last.raw[1]
       IN /\ \A k \in DOMAIN v.segments :
                LET sg == v.segments[k]
                    off == 32 + SegmentsSize(SubSeq(v.segments, 1, k - 1))
                IN /\ off + 24 <= Len(raw)
                   /\ raw[off + 13] = sg.segmentkind
                   /\ SubSeq(raw, off + 14, off + 24)
                        = IF sg.segmentkind = 1
                          THEN <<sg.messagetype[1], 0, 0>> \o Zeros(8)
                          ELSE IF sg.segmentkind = 2
                          THEN <<0, sg.functioncode[1], 0>> \o Zeros(8)
                          ELSE Zeros(11)
                   /\ sg.parts # <<>>
                      => LESignedVal(SubSeq(raw, off + 25, off + 25))
                           = sg.parts[1].partkind
          /\ (last.op = "dissect" /\ v.segments # <<>>)
             => LET d == last.dissected[1].segments[1]
                IN /\ d.segmentkind = v.segments[1].segmentkind
                   /\ d.messagetype = v.segments[1].messagetype
                   /\ d.functioncode = v.segments[1].functioncode
                   /\ (d.messagetype # None) <=> (d.segmentkind = 1)
                   /\ (d.functioncode # None) <=> (d.segmentkind = 2)

\* C22 witness: a packet whose first segment is a reply with function code
\* 14 was built and dissected
C22_Witness ==
    /\ last.op = "dissect"
    /\ last.packet.segments # <<>>
    /\ last.packet.segments[1].segmentkind = 2
    /\ SubSeq(last.raw[1], 45, 48) = <<2, 0, 14, 0>>
    /\ last.dissected[1].segments[1].functioncode = Some(14)

\* C23: authenticate and connect_authenticate, whether they return or
\* raise, leave the username, the credential, the pid and the hostname of
\* the authentication method as they were
C23_CredentialsUnchanged ==
    [][last'.op \in AuthOps
       => /\ auth_method'.username = auth_method.username
          /\ auth_method'.credential = auth_method.credential
          /\ auth_method'.pid = auth_method.pid
          /\ auth_method'.hostname = auth_method.hostname
          /\ auth_method'.METHOD = auth_method.METHOD]_vars

\* C23 witness: an authenticate that went through both exchanges with a
\* SCRAM method left the credential the method was constructed with
C23_Witness ==
    /\ last.op \in AuthOps
    /\ last.raised = None
    /\ Len(last.replies) = 2
    /\ auth_method.METHOD = "SCRAMPBKDF2SHA256"
    /\ auth_method.username = "user"
    /\ auth_method.credential = "secret"

\* C24: once product_version and protocol_version are populated no call
\* changes them
C24_VersionsKept ==
    [][(product_version # None /\ protocol_version # None)
       => UNCHANGED <<product_version, protocol_version>>]_vars

\* C24 witness: the versions were populated on a socket that was closed
\* since, and the connection is connected again, on a socket on which no
\* initialization ran
C24_Witness ==
    /\ product_version # None
    /\ protocol_version # None
    /\ \E i \in 1..MaxSockets :
          sockets[i].state = "closed" /\ sockets[i].initialized
    /\ stream_socket # None
    /\ ~sockets[stream_socket[1]].initialized

\* C25: every socket the connection opened and did not close is the socket
\* it holds
C25_OneOpenSocket ==
    \A i \in 1..MaxSockets :
        sockets[i].state = "open" => stream_socket = Some(i)

====
